---- MODULE Spec2Model ----
(***************************************************************************)
(* bevy_planets (src/src/main.rs): a sun, `planets` orbiting planets with  *)
(* 1..3 moons each, an orbit updater on a fixed timestep and a picker that *)
(* recolours the body closest to the clicked point of the ground plane.    *)
(*                                                                         *)
(* Abstractions of the numeric domain (the structure of the code is kept): *)
(*  - lengths are integers, Unit of them per scene unit, so that every     *)
(*    orbit radius 0.15 + i/6 and 0.05 + j/35 is an exact integer;         *)
(*  - angles are integers counting quarter turns, so that cos and sin are  *)
(*    exact (1, 0, -1, 0); speeds are quarter turns per time unit and the  *)
(*    elapsed time is an integer number of time units;                     *)
(*  - distances are compared by their squares (sqrt is monotone);          *)
(*  - a colour is <<r, g, b>> with channels in tenths.                     *)
(***************************************************************************)
EXTENDS Integers, Sequences, FiniteSets

(* ------------------------------ bounds --------------------------------- *)

\* Largest planet count given on the command line.
MaxPlanets == 2

\* Largest elapsed time (seconds_since_startup), in time units.
MaxTime == 1

\* Longest command-line argument, in characters (SpecStartup).
MaxArgLen == 2

(* ------------------------------ numbers -------------------------------- *)

\* Length units per scene unit: 420 = lcm(20, 6, 35), the denominators of
\* 0.15, 1/6.0, 0.05 and 1/35.0.
Unit == 420

\* i32 (GameSettings.planets, the target type of parse()).
I32Max == 2147483647
I32Min == -I32Max - 1

\* shape::Plane { size: 100.0 }, in scene units.
PlaneSize == 100

\* let mut shortest_distance = 100.0, in scene units.
ShortestDistanceInit == 100

\* rng.gen_range(1..4): the moon count of a planet.
MoonsLow == 1
MoonsHighExcl == 4

\* Camera height: Transform::from_xyz(0.0, 2.0, 0.0).
CameraY == 2

MoonCounts == MoonsLow .. (MoonsHighExcl - 1)

\* rng.gen_range(0.1..0.5) for planets and rng.gen_range(1.0..2.0) for moons,
\* sampled in quarter turns per time unit (a moon is 2 to 20 times faster).
PlanetSpeeds == {1}
MoonSpeeds == {7}

\* rng.gen_range(0.0..10.0), sampled in time units: two phases for the planets
\* and one for the moons.
PlanetPhases == {0, 1}
MoonPhases == {1}

(* ------------------------------ colours -------------------------------- *)

BLACK == <<0, 0, 0>>
WHITE == <<10, 10, 10>>
YELLOW == <<10, 10, 0>>
LIME_GREEN == <<2, 8, 2>>

set_r(c, v) == <<v, c[2], c[3]>>
set_g(c, v) == <<c[1], v, c[3]>>
set_b(c, v) == <<c[1], c[2], v>>

\* Mutant: the reset leaves the green channel alone.
ResetColorNoGreen(c) == set_b(set_r(c, 0), 0)

\* color.set_r(0.0); color.set_g(1.0); color.set_b(0.0)
ResetColor(c) == set_b(set_g(set_r(c, 0), 10), 0)

\* color.set_r(1.0); color.set_g(1.0); color.set_b(1.0)
SelectColor(c) == set_b(set_g(set_r(c, 10), 10), 10)

(* ------------------------------ vectors -------------------------------- *)

ZERO == <<0, 0, 0>>

VecAdd(p, q) == <<p[1] + q[1], p[2] + q[2], p[3] + q[3]>>

VecScale(p, k) == <<p[1] * k, p[2] * k, p[3] * k>>

\* The square of Vec3::distance.
DistanceSq(p, q) ==
    (p[1] - q[1]) * (p[1] - q[1]) + (p[2] - q[2]) * (p[2] - q[2])
        + (p[3] - q[3]) * (p[3] - q[3])

\* cos and sin of an angle given in quarter turns.
Cos(a) == CASE a % 4 = 0 -> 1 [] a % 4 = 1 -> 0 [] a % 4 = 2 -> -1 [] OTHER -> 0

Sin(a) == CASE a % 4 = 0 -> 0 [] a % 4 = 1 -> 1 [] a % 4 = 2 -> 0 [] OTHER -> -1

(* --------------------------- command line ------------------------------ *)

Digits == <<"0", "1", "2", "3", "4", "5", "6", "7", "8", "9">>

IsDigit(c) == \E d \in 1..10 : Digits[d] = c

DigitVal(c) == (CHOOSE d \in 1..10 : Digits[d] = c) - 1

RECURSIVE TrimStart(_)
TrimStart(s) == IF s # <<>> /\ Head(s) = " " THEN TrimStart(Tail(s)) ELSE s

RECURSIVE TrimEnd(_)
TrimEnd(s) ==
    IF s # <<>> /\ s[Len(s)] = " " THEN TrimEnd(SubSeq(s, 1, Len(s) - 1)) ELSE s

\* str::trim
Trim(s) == TrimEnd(TrimStart(s))

ParseErr == [ok |-> FALSE, val |-> 0]

\* The digits of an i32 literal, most significant first, accumulated with the
\* overflow check of i32::from_str (sign = 1 or -1).
RECURSIVE ParseDigits(_, _, _)
ParseDigits(s, acc, sign) ==
    IF s = <<>> THEN [ok |-> TRUE, val |-> acc]
    ELSE IF ~IsDigit(Head(s)) THEN ParseErr
    ELSE IF sign = 1 /\ acc > (I32Max - DigitVal(Head(s))) \div 10 THEN ParseErr
    ELSE IF sign = -1 /\ acc < (I32Min + DigitVal(Head(s)) + 9) \div 10 THEN ParseErr
    ELSE ParseDigits(Tail(s), acc * 10 + sign * DigitVal(Head(s)), sign)

\* <i32 as FromStr>::from_str: an optional sign, then at least one digit.
ParseI32(s) ==
    IF s = <<>> THEN ParseErr
    ELSE IF Head(s) = "-" THEN
        (IF Len(s) = 1 THEN ParseErr ELSE ParseDigits(Tail(s), 0, -1))
    ELSE IF Head(s) = "+" THEN
        (IF Len(s) = 1 THEN ParseErr ELSE ParseDigits(Tail(s), 0, 1))
    ELSE ParseDigits(s, 0, 1)

\* Mutant: the argument is parsed without trim().
ParsePlanetsNoTrim(argv) == IF argv = <<>> THEN ParseErr ELSE ParseI32(argv[1])

\* args[1].trim().parse(): args holds the arguments after the program name, so
\* args[1] of the code is the first of them; indexing panics when it is absent.
ParsePlanets(argv) == IF argv = <<>> THEN ParseErr ELSE ParseI32(Trim(argv[1]))

(* ------------------------------- state --------------------------------- *)

VARIABLES
    args,               \* env::args() after the program name: a sequence of strings
    stage,              \* "init", "panicked", "startup" (App::run, before setup), "running"
    settings,           \* GameSettings: <<>> before insert_resource, then <<[planets |-> n]>>
    world,              \* the entities, in spawn order
    materials,          \* Assets<StandardMaterial>: handle -> base_color
    transform,          \* Transform.translation of each entity
    global_transform,   \* GlobalTransform.translation of each entity
    query_order,        \* the order planetoids_query.iter() yields the bodies in
    now,                \* Time::seconds_since_startup, set at the start of a frame
    frames,             \* Update stages begun so far: 0, 1 or 2 (two or more)
    pending,            \* systems of this frame's Update stage that have yet to run
    just_pressed,       \* Input<MouseButton>::just_pressed(MouseButton::Left) this frame
    intersections,      \* RayCastSource::intersections: <<>> or <<[entity, position]>>
    last_scan,          \* history: whether Picker has scanned, and its last closest_color_handle
    last_tick,          \* history: elapsed time of the most recent Orbit Updater tick, -1 if none
    propagated          \* history: last_tick as of the most recent transform propagation

vars ==
    <<args, stage, settings, world, materials, transform, global_transform,
      query_order, now, frames, pending, just_pressed, intersections,
      last_scan, last_tick, propagated>>

(* --------------------------- the entity store -------------------------- *)

\* An entity: the bundle it was spawned with, its Parent (0 for none), its
\* material handle (0 for none), its Planetoid component (<<>> for none) and
\* its raycast component ("mesh", "source" or "none").
Entity(bundle, parent, material, planetoid, raycast) ==
    [bundle |-> bundle, parent |-> parent, material |-> material,
     planetoid |-> planetoid, raycast |-> raycast]

\* struct Planetoid
Planetoid(speed, orbit_radius, time) ==
    [speed |-> speed, orbit_radius |-> orbit_radius, time |-> time]

\* orbit_radius: 0.15 + ((i as f32) / 6.0), in length units.
PlanetOrbitRadius(i) == (3 * Unit) \div 20 + (i * Unit) \div 6

\* Mutant: the moons' radii step by 1/6 like the planets'.
MoonOrbitRadiusSixth(j) == Unit \div 20 + (j * Unit) \div 6

\* orbit_radius: 0.05 + ((j as f32) / 35.0), in length units.
MoonOrbitRadius(j) == Unit \div 20 + (j * Unit) \div 35

\* The bodies: the entities planetoids_query matches.
IsBody(w, e) == w[e].planetoid # <<>>

Bodies(w) == {e \in 1..Len(w) : IsBody(w, e)}

IsPlanet(w, e) == IsBody(w, e) /\ w[e].parent = 0

IsMoon(w, e) == IsBody(w, e) /\ w[e].parent # 0

MoonsOf(w, p) == {e \in Bodies(w) : w[e].parent = p}

\* The bodies among a sequence of entity ids: the moons, or the planets.
RECURSIVE Filter(_, _, _)
Filter(ids, w, wantMoon) ==
    IF ids = <<>> THEN <<>>
    ELSE IF IsBody(w, Head(ids)) /\ (IsMoon(w, Head(ids)) = wantMoon)
         THEN <<Head(ids)>> \o Filter(Tail(ids), w, wantMoon)
         ELSE Filter(Tail(ids), w, wantMoon)

EntityIds(w) == [e \in 1..Len(w) |-> e]

\* The order planetoids_query.iter() yields the bodies in: table by table, each
\* in the order its rows were filled. PushChildren completes the moons' table
\* (it inserts Parent on every child) before the later insert(Planetoid)
\* completes the planets' table; no system changes an archetype afterwards, so
\* the order is the same in every frame.
QueryOrder(w) == Filter(EntityIds(w), w, TRUE) \o Filter(EntityIds(w), w, FALSE)

(* -------------------------------- setup -------------------------------- *)

\* The draws of rand::thread_rng() in setup: per planet its moon count, speed
\* and phase, per moon its speed and phase.
Draws(n) ==
    [moons : [0..(n - 1) -> MoonCounts],
     speed : [0..(n - 1) -> PlanetSpeeds],
     time : [0..(n - 1) -> PlanetPhases],
     moon_speed : [0..(n - 1) -> [0..(MoonsHighExcl - 2) -> MoonSpeeds]],
     moon_time : [0..(n - 1) -> [0..(MoonsHighExcl - 2) -> MoonPhases]]]

\* for j in 0..moons { parent.spawn_bundle(..).insert(Planetoid {..}) }
RECURSIVE SpawnMoons(_, _, _, _, _, _)
SpawnMoons(j, moons, i, parent, st, rnd) ==
    IF j >= moons THEN st
    ELSE SpawnMoons(j + 1, moons, i, parent,
            [world |-> Append(st.world,
                Entity("PbrBundle", parent, Len(st.materials) + 1,
                       <<Planetoid(rnd.moon_speed[i][j], MoonOrbitRadius(j),
                                   rnd.moon_time[i][j])>>, "none")),
             materials |-> Append(st.materials, WHITE)],
            rnd)

\* for i in 0..settings.planets { commands.spawn_bundle(..).with_children(..)
\*     .insert(Planetoid {..}) }
RECURSIVE SpawnPlanets(_, _, _, _)
SpawnPlanets(i, planets, st, rnd) ==
    IF i >= planets THEN st
    ELSE SpawnPlanets(i + 1, planets,
            SpawnMoons(0, rnd.moons[i], i, Len(st.world) + 1,
                [world |-> Append(st.world,
                    Entity("PbrBundle", 0, Len(st.materials) + 1,
                           <<Planetoid(rnd.speed[i], PlanetOrbitRadius(i),
                                       rnd.time[i])>>, "none")),
                 materials |-> Append(st.materials, LIME_GREEN)],
                rnd),
            rnd)

\* The ground plane, with RayCastMesh::<Pickable>.
SpawnPlane(st) ==
    [world |-> Append(st.world,
        Entity("PbrBundle", 0, Len(st.materials) + 1, <<>>, "mesh")),
     materials |-> Append(st.materials, BLACK)]

\* The sun: a point light with one emissive sphere as its child.
SpawnSun(st) ==
    [world |-> st.world
        \o <<Entity("PointLightBundle", 0, 0, <<>>, "none"),
             Entity("PbrBundle", Len(st.world) + 1, Len(st.materials) + 1,
                    <<>>, "none")>>,
     materials |-> Append(st.materials, YELLOW)]

\* The camera, with RayCastSource::<Pickable>.
SpawnCamera(st) ==
    [world |-> Append(st.world,
        Entity("PerspectiveCameraBundle", 0, 0, <<>>, "source")),
     materials |-> st.materials]

\* Mutant: the planet loop starts at 1.
SceneFromOne(planets, rnd) ==
    SpawnCamera(SpawnSun(SpawnPlanets(1, planets,
        SpawnPlane([world |-> <<>>, materials |-> <<>>]), rnd)))

\* The scene setup builds for a planet count and the draws of its generator.
Scene(planets, rnd) ==
    SpawnCamera(SpawnSun(SpawnPlanets(0, planets,
        SpawnPlane([world |-> <<>>, materials |-> <<>>]), rnd)))

\* Transform::from_xyz of each bundle: the camera at (0, 2, 0), the rest at
\* the origin.
InitialTranslation(w, e) ==
    IF w[e].bundle = "PerspectiveCameraBundle" THEN <<0, CameraY * Unit, 0>> ELSE ZERO

(* ------------------------------- startup ------------------------------- *)

\* The characters arguments are drawn from.
ArgAlphabet == {"0", "1", "2", "-", "+", " ", "x"}

Strings(len) == UNION {[1..k -> ArgAlphabet] : k \in 0..len}

Decimal(n) == <<Digits[n + 1]>>

\* Command lines of the full system: absent, malformed, negative, and each
\* count 0..MaxPlanets in decimal.
Argvs ==
    {<<>>, << <<"x">> >>, << <<"-", "1">> >>}
        \cup {<<Decimal(n)>> : n \in 0..MaxPlanets}

\* Command lines of the startup specification: every string of up to
\* MaxArgLen characters that is rejected or asks for at most MaxPlanets.
StartupArgvs ==
    {<<>>} \cup
    {<<s>> : s \in {t \in Strings(MaxArgLen) :
                        ~ParseI32(Trim(t)).ok \/ ParseI32(Trim(t)).val <= MaxPlanets}}

InitWith(argvs) ==
    /\ args \in argvs
    /\ stage = "init"
    /\ settings = <<>>
    /\ world = <<>>
    /\ materials = <<>>
    /\ transform = <<>>
    /\ global_transform = <<>>
    /\ query_order = <<>>
    /\ now = 0
    /\ frames = 0
    /\ pending = {}
    /\ just_pressed = FALSE
    /\ intersections = <<>>
    /\ last_scan = [done |-> FALSE, closest |-> 0]
    /\ last_tick = -1
    /\ propagated = -1

Init == InitWith(Argvs)

InitStartup == InitWith(StartupArgvs)

\* main, up to App::run: index args[1], trim, parse as i32 (expect panics on
\* Err), insert GameSettings { planets }.
Main ==
    /\ stage = "init"
    /\ IF ParsePlanets(args).ok
       THEN /\ stage' = "startup"
            /\ settings' = <<[planets |-> ParsePlanets(args).val]>>
       ELSE /\ stage' = "panicked"
            /\ settings' = settings
    /\ UNCHANGED <<args, world, materials, transform, global_transform,
                   query_order, now, frames, pending, just_pressed,
                   intersections, last_scan, last_tick, propagated>>

\* The startup system setup, its commands applied, and the first transform
\* propagation (every translation is the initial one).
Setup ==
    /\ stage = "startup"
    /\ \E rnd \in Draws(settings[1].planets) :
         LET st == Scene(settings[1].planets, rnd) IN
         /\ world' = st.world
         /\ materials' = st.materials
         /\ transform' = [e \in 1..Len(st.world) |-> InitialTranslation(st.world, e)]
         /\ global_transform' =
                [e \in 1..Len(st.world) |-> InitialTranslation(st.world, e)]
         /\ query_order' = QueryOrder(st.world)
    /\ stage' = "running"
    /\ UNCHANGED <<args, settings, now, frames, pending, just_pressed,
                   intersections, last_scan, last_tick, propagated>>

NextStartup == Main \/ Setup

SpecStartup == InitStartup /\ [][NextStartup]_vars

(* ------------------------------ the frame ------------------------------ *)

\* Mutant: a child's GlobalTransform ignores its parent.
PropagateLocalOnly(w, t, e) == t[e]

\* transform_propagate_system: a root's GlobalTransform is its Transform, a
\* child's is its parent's GlobalTransform composed with its own Transform
\* (translations only: no entity is rotated or scaled below a parent).
RECURSIVE Propagate(_, _, _)
Propagate(w, t, e) ==
    IF w[e].parent = 0 THEN t[e] ELSE VecAdd(Propagate(w, t, w[e].parent), t[e])

PropagateAll(w, t) == [e \in 1..Len(w) |-> Propagate(w, t, e)]

\* Half the side of the ground plane, in length units.
PlaneHalf == (PlaneSize * Unit) \div 2

\* Points of the ground plane the pick ray may hit: the origin, a point near
\* the innermost orbit (with a rounding residue in its vertical component)
\* and a corner of the plane.
PickPoints ==
    { <<0, 0, 0>>, <<90, 1, 0>>, <<PlaneHalf, 0, -PlaneHalf>> }

\* The ground plane: the only entity with RayCastMesh::<Pickable>.
RayCastMeshes(w) == {e \in 1..Len(w) : w[e].raycast = "mesh"}

\* What the raycasting plugin may leave in RayCastSource::intersections: nothing,
\* or the hit on the ground plane.
Raycasts(w) ==
    {<<>>} \cup
    {<<[entity |-> e, position |-> p]>> : e \in RayCastMeshes(w), p \in PickPoints}

\* RayCastSource::intersect_top
intersect_top(list) == IF list = <<>> THEN <<>> ELSE <<Head(list)>>

\* The systems the coming Update stage runs: pick_planetoid in every frame
\* (add_system); planetoid_movement_system when the FixedTimestep run criteria
\* says so, which it cannot in the first frame, whose delta time is zero.
\* Repeated runs within one frame see the same elapsed time and are one tick.
Schedules(begun) ==
    IF begun = 0
    THEN {{"pick_planetoid"}}
    ELSE {{"pick_planetoid"}, {"pick_planetoid", "planetoid_movement_system"}}

\* The engine between two Update stages: PostUpdate propagates the transforms;
\* First advances the clock (it reads zero in the first frame); PreUpdate
\* updates the mouse input and casts the pick ray (update_raycast_with_cursor
\* and the raycasting plugin); the run criteria are evaluated.
NextFrame ==
    /\ stage = "running"
    /\ pending = {}
    /\ global_transform' = PropagateAll(world, transform)
    /\ propagated' = last_tick
    /\ \E dt \in {0, 1} :
         /\ now + dt <= MaxTime
         /\ frames = 0 => dt = 0
         /\ now' = now + dt
    /\ frames' = IF frames < 2 THEN frames + 1 ELSE frames
    /\ just_pressed' \in BOOLEAN
    /\ intersections' \in Raycasts(world)
    /\ pending' \in Schedules(frames)
    /\ UNCHANGED <<args, stage, settings, world, materials, transform,
                   query_order, last_scan, last_tick>>

(* ---------------------------- Orbit Updater ---------------------------- *)

\* let angle = (planetoid.speed * (planetoid.time - seconds_since_startup)) as f32
Angle(planetoid, t) == planetoid.speed * (planetoid.time - t)

\* Vec3::new(angle.cos(), 0.0, angle.sin())
Rotation(angle) == <<Cos(angle), 0, Sin(angle)>>

\* Mutant: the tick adds to the previous translation.
OrbitTranslationAccumulated(planetoid, old, t) ==
    VecAdd(old, VecScale(Rotation(Angle(planetoid, t)), planetoid.orbit_radius))

\* transform.translation = rotation * planetoid.orbit_radius
OrbitTranslation(planetoid, old, t) ==
    VecScale(Rotation(Angle(planetoid, t)), planetoid.orbit_radius)

\* planetoid_movement_system
planetoid_movement_system ==
    /\ stage = "running"
    /\ "planetoid_movement_system" \in pending
    /\ transform' =
         [e \in 1..Len(world) |->
            IF IsBody(world, e)
            THEN OrbitTranslation(world[e].planetoid[1], transform[e], now)
            ELSE transform[e]]
    /\ last_tick' = now
    /\ pending' = pending \ {"planetoid_movement_system"}
    /\ UNCHANGED <<args, stage, settings, world, materials, global_transform,
                   query_order, now, frames, just_pressed, intersections,
                   last_scan, propagated>>

(* -------------------------------- Picker ------------------------------- *)

\* new_position = top_intersection.1.position(); new_position.y = 0.0
NewPosition(top) == <<top.position[1], 0, top.position[3]>>

\* Mutant: let mut shortest_distance = 1.0.
ShortestInitSqOne == Unit * Unit

\* let mut shortest_distance = 100.0, squared, in length units.
ShortestInitSq == (ShortestDistanceInit * Unit) * (ShortestDistanceInit * Unit)

\* Mutant: the comparison is reversed.
CloserReversed(current, shortest) == current > shortest

\* Mutant: a body at the same distance replaces the candidate.
CloserOrEqual(current, shortest) == current <= shortest

\* if current_distance < shortest_distance
Closer(current, shortest) == current < shortest

\* The scan of pick_planetoid over the bodies left to visit: every body's
\* colour is reset; a body strictly closer than the shortest distance so far
\* becomes the candidate. Yields the materials, the shortest distance and
\* closest_color_handle (0 for None).
RECURSIVE Scan(_, _, _, _, _)
Scan(todo, new_position, mats, shortest, closest) ==
    IF todo = <<>>
    THEN [materials |-> mats, shortest |-> shortest, closest |-> closest]
    ELSE LET e == Head(todo)
             handle == world[e].material
             current == DistanceSq(global_transform[e], new_position)
             reset == [mats EXCEPT ![handle] = ResetColor(@)]
         IN IF Closer(current, shortest)
            THEN Scan(Tail(todo), new_position, reset, current, handle)
            ELSE Scan(Tail(todo), new_position, reset, shortest, closest)

\* if closest_color_handle.is_some() { set the colour to white }
Recolor(mats, closest) ==
    IF closest # 0 THEN [mats EXCEPT ![closest] = SelectColor(@)] ELSE mats

\* The ray sources to.get_single() succeeds on: there must be exactly one.
RayCastSources(w) == {e \in 1..Len(w) : w[e].raycast = "source"}

\* Mutant: the scan does not wait for the button.
ScansWithoutPress ==
    /\ Cardinality(RayCastSources(world)) = 1
    /\ intersect_top(intersections) # <<>>

\* Whether this run of pick_planetoid reaches the scan.
Scans ==
    /\ Cardinality(RayCastSources(world)) = 1
    /\ intersect_top(intersections) # <<>>
    /\ just_pressed

\* pick_planetoid
pick_planetoid ==
    /\ stage = "running"
    /\ "pick_planetoid" \in pending
    /\ IF Scans
       THEN LET r == Scan(query_order, NewPosition(intersect_top(intersections)[1]),
                          materials, ShortestInitSq, 0)
            IN /\ materials' = Recolor(r.materials, r.closest)
               /\ last_scan' = [done |-> TRUE, closest |-> r.closest]
       ELSE UNCHANGED <<materials, last_scan>>
    /\ pending' = pending \ {"pick_planetoid"}
    /\ UNCHANGED <<args, stage, settings, world, transform, global_transform,
                   query_order, now, frames, just_pressed, intersections,
                   last_tick, propagated>>

(* ---------------------------- specification ---------------------------- *)

Next ==
    \/ Main
    \/ Setup
    \/ NextFrame
    \/ planetoid_movement_system
    \/ pick_planetoid

Spec == Init /\ [][Next]_vars

(* ------------------------- vocabulary of the claims -------------------- *)

\* The unselected colour: green (r = 0, g = 1, b = 0).
GREEN == <<0, 10, 0>>

Running == stage = "running"

ColorOf(b) == materials[world[b].material]

\* Pick_planetoid has run in the current frame and performed its scan: within a
\* frame neither the mouse input, nor the intersections, nor any
\* GlobalTransform changes.
ScanDone ==
    /\ Running
    /\ "pick_planetoid" \notin pending
    /\ just_pressed
    /\ intersections # <<>>

\* The intersection point with its vertical component set to 0.
Projected == <<intersections[1].position[1], 0, intersections[1].position[3]>>

\* Squared distance of a body's world position to the projected pick point.
DistSq(b) == DistanceSq(global_transform[b], Projected)

Closest(b) == \A c \in Bodies(world) : DistSq(b) <= DistSq(c)

\* A step of pick_planetoid.
PickStep == "pick_planetoid" \in pending /\ "pick_planetoid" \notin pending'

\* The index i of a planet (the planets before it) and j of a moon (the moons
\* of its planet before it).
PlanetIndex(p) == Cardinality({q \in Bodies(world) : IsPlanet(world, q) /\ q < p})

MoonIndex(m) == Cardinality({q \in MoonsOf(world, world[m].parent) : q < m})

\* orbit_radius * (cos a, 0, sin a) with a = speed * (phase - t); the origin
\* when no tick has run (t < 0).
ImpliedLocal(b, t) ==
    IF t < 0 THEN ZERO
    ELSE LET pl == world[b].planetoid[1]
             a == pl.speed * (pl.time - t)
         IN <<pl.orbit_radius * Cos(a), 0, pl.orbit_radius * Sin(a)>>

\* A planet's orbit position; a moon's parent's orbit position plus its own.
ImpliedWorld(b, t) ==
    IF world[b].parent = 0 THEN ImpliedLocal(b, t)
    ELSE VecAdd(ImpliedLocal(world[b].parent, t), ImpliedLocal(b, t))

(* -------------------------------- claims ------------------------------- *)

\* C1: after a Picker run on a frame where the left button was just pressed and
\* the pick ray has an intersection, with at least one body: some body is
\* white, it is at minimum distance (over all bodies) from the intersection
\* point with its vertical component zeroed, and every other body is green.
C1_ClosestWhiteOthersGreen ==
    (ScanDone /\ Bodies(world) # {}) =>
        \E b \in Bodies(world) :
            /\ ColorOf(b) = WHITE
            /\ Closest(b)
            /\ \A c \in Bodies(world) \ {b} : ColorOf(c) = GREEN

\* C1 witness: a scan over bodies at different distances, the pick point having
\* a non-zero vertical component.
C1_Witness ==
    /\ ScanDone
    /\ intersections[1].position[2] # 0
    /\ \E b, c \in Bodies(world) : DistSq(b) < DistSq(c) /\ ColorOf(b) = WHITE

\* C2: once setup has run there are exactly one camera, one pick ray source (on
\* the camera), one ground plane, one sun and, for a planet count N >= 0,
\* exactly N top-level bodies, each with 1 to 3 moons; in every later state.
C2_SceneCounts ==
    Running =>
        /\ Cardinality({e \in 1..Len(world) :
                world[e].bundle = "PerspectiveCameraBundle"}) = 1
        /\ Cardinality({e \in 1..Len(world) : world[e].raycast = "source"}) = 1
        /\ \A e \in 1..Len(world) :
                world[e].raycast = "source" =>
                    world[e].bundle = "PerspectiveCameraBundle"
        /\ Cardinality({e \in 1..Len(world) : world[e].raycast = "mesh"}) = 1
        /\ Cardinality({e \in 1..Len(world) :
                world[e].bundle = "PointLightBundle"}) = 1
        /\ settings[1].planets >= 0 =>
                Cardinality({b \in Bodies(world) : IsPlanet(world, b)})
                    = settings[1].planets
        /\ \A p \in Bodies(world) :
                IsPlanet(world, p) =>
                    /\ Cardinality(MoonsOf(world, p)) >= 1
                    /\ Cardinality(MoonsOf(world, p)) <= 3
        /\ \A m \in Bodies(world) :
                IsMoon(world, m) => IsPlanet(world, world[m].parent)

\* C2 witness: a scene with two planets, after an Orbit Updater tick and a pick.
C2_Witness ==
    /\ Running
    /\ settings[1].planets >= 2
    /\ last_tick >= 0
    /\ last_scan.done

\* C3 (as stated; refuted): from scene creation on, a body is white if and
\* only if it is the body chosen by the most recent successful pick, and every
\* other body (every body, before any pick) is green.
C3_ColourReflectsSelection ==
    Running =>
        \A b \in Bodies(world) :
            /\ ColorOf(b) = WHITE
                    <=> (last_scan.done /\ last_scan.closest = world[b].material)
            /\ ~(last_scan.done /\ last_scan.closest = world[b].material)
                    => ColorOf(b) = GREEN

\* C3 (amended): once Picker has scanned, a body is white if and only if the
\* most recent scan chose it and every other body is green; before the first
\* scan every planet is lime green and every moon is white.
C3_ColourAfterFirstScan ==
    Running =>
        \A b \in Bodies(world) :
            IF last_scan.done
            THEN /\ ColorOf(b) = WHITE <=> last_scan.closest = world[b].material
                 /\ last_scan.closest # world[b].material => ColorOf(b) = GREEN
            ELSE /\ IsPlanet(world, b) => ColorOf(b) = LIME_GREEN
                 /\ IsMoon(world, b) => ColorOf(b) = WHITE

\* C3 witness: after a scan, a moon (white at creation) is green and a body is
\* white.
C3_Witness ==
    /\ Running
    /\ last_scan.done
    /\ \E m, b \in Bodies(world) :
            IsMoon(world, m) /\ ColorOf(m) = GREEN /\ ColorOf(b) = WHITE

\* C4: after an Orbit Updater tick at elapsed time t every body's position
\* relative to its parent is orbit_radius * (cos a, 0, sin a), a = speed *
\* (phase - t): a function of t and the creation-time parameters alone, with
\* vertical component 0, and exactly (orbit_radius, 0, 0) when t = phase.
C4_OrbitPosition ==
    (Running /\ last_tick >= 0) =>
        \A b \in Bodies(world) :
            LET pl == world[b].planetoid[1]
                a == pl.speed * (pl.time - last_tick)
            IN /\ transform[b]
                    = <<pl.orbit_radius * Cos(a), 0, pl.orbit_radius * Sin(a)>>
               /\ transform[b][2] = 0
               /\ last_tick = pl.time => transform[b] = <<pl.orbit_radius, 0, 0>>

\* C4 witness: after a second tick, a body at t = phase and a body off the x axis.
C4_Witness ==
    /\ Running
    /\ last_tick >= 1
    /\ propagated >= 0
    /\ \E b, c \in Bodies(world) :
            /\ world[b].planetoid[1].time = last_tick
            /\ transform[c][3] # 0

\* An argument that, with the spaces at its ends dropped, is an optional sign
\* followed by one or more digits (every value of at most MaxArgLen <= 8
\* digits fits an i32).
IsIntegerText(s) ==
    \E lo, hi \in 1..Len(s) :
        /\ lo <= hi
        /\ \A k \in 1..(lo - 1) : s[k] = " "
        /\ \A k \in (hi + 1)..Len(s) : s[k] = " "
        /\ LET first == IF s[lo] \in {"+", "-"} THEN lo + 1 ELSE lo
           IN /\ first <= hi
              /\ \A k \in first..hi : IsDigit(s[k])

\* Whether the integer text is negative (its numeral not being all zeros).
IsNegativeText(s) ==
    /\ IsIntegerText(s)
    /\ \E k \in 1..Len(s) : s[k] = "-"
    /\ \E k \in 1..Len(s) : IsDigit(s[k]) /\ s[k] # "0"

\* C5 (as stated; refuted): every input other than a parseable non-negative
\* integer (absent, not an integer, or a negative integer) ends in the fatal
\* startup error, before any entity exists.
C5_OnlyNonNegativeAccepted ==
    /\ stage \in {"startup", "running"} =>
            (args # <<>> /\ IsIntegerText(args[1]) /\ ~IsNegativeText(args[1]))
    /\ stage = "panicked" => (world = <<>> /\ materials = <<>>)

\* C5 (amended): startup ends in the fatal error, before any entity exists,
\* exactly when the argument is absent or is not an integer; a negative integer
\* is accepted as the planet count and the scene is built with no planet.
C5_OnlyIntegerAccepted ==
    /\ stage # "init" =>
            (stage = "panicked" <=> (args = <<>> \/ ~IsIntegerText(args[1])))
    /\ stage = "panicked" => (world = <<>> /\ materials = <<>> /\ settings = <<>>)
    /\ (Running /\ IsNegativeText(args[1])) =>
            (settings[1].planets < 0 /\ Bodies(world) = {} /\ world # <<>>)

\* C5 witness: the fatal error on a malformed argument that is present.
C5_Witness ==
    /\ stage = "panicked"
    /\ args # <<>>
    /\ \E k \in 1..Len(args[1]) : IsDigit(args[1][k])
    /\ world = <<>>

\* C6: the planet at index i has orbit radius 0.15 + i/6 and the moon at index
\* j of any planet has orbit radius 0.05 + j/35 (j = 0..k-1 for k moons),
\* whatever the planet's index; in every state after setup.
C6_OrbitRadii ==
    Running =>
        /\ \A p \in Bodies(world) :
                IsPlanet(world, p) =>
                    60 * world[p].planetoid[1].orbit_radius
                        = Unit * (9 + 10 * PlanetIndex(p))
        /\ \A m \in Bodies(world) :
                IsMoon(world, m) =>
                    /\ 140 * world[m].planetoid[1].orbit_radius
                            = Unit * (7 + 4 * MoonIndex(m))
                    /\ MoonIndex(m) < Cardinality(MoonsOf(world, world[m].parent))

\* C6 witness: a second planet (index 1) with three moons, after a tick and a
\* scan.
C6_Witness ==
    /\ Running
    /\ last_tick >= 0
    /\ last_scan.done
    /\ \E p \in Bodies(world) :
            /\ IsPlanet(world, p)
            /\ PlanetIndex(p) = 1
            /\ Cardinality(MoonsOf(world, p)) = 3

\* C7: a Picker run changes no colour unless the left button was just pressed
\* and the pick ray has an intersection, and never changes an entity, a
\* position or an orbit parameter; after startup no other step changes a colour.
C7_PickOnlyOnPressWithHit ==
    [][ /\ PickStep =>
            /\ ~(just_pressed /\ intersections # <<>>) => materials' = materials
            /\ world' = world
            /\ transform' = transform
            /\ global_transform' = global_transform
        /\ (Running /\ materials' # materials) =>
            (PickStep /\ just_pressed /\ intersections # <<>>) ]_vars

\* C7 witness: Picker has run on a frame without a press, and the body selected
\* earlier is still white although another body is now closer to the
\* intersection point.
C7_Witness ==
    /\ Running
    /\ "pick_planetoid" \notin pending
    /\ ~just_pressed
    /\ intersections # <<>>
    /\ \E b, c \in Bodies(world) : ColorOf(b) = WHITE /\ DistSq(c) < DistSq(b)
    /\ last_scan.done

\* The bodies at the minimum distance from the projected pick point.
Tied == {b \in Bodies(world) : Closest(b)}

\* The position of a body in the scan's iteration order.
ScanPosition(b) == CHOOSE k \in 1..Len(query_order) : query_order[k] = b

\* C8: when several bodies are at the same minimum distance, the scan selects
\* the one it meets first: exactly that one ends white, the others green.
C8_FirstOfTiedWins ==
    ScanDone =>
        \A b \in Tied :
            IF \A c \in Tied : ScanPosition(b) <= ScanPosition(c)
            THEN ColorOf(b) = WHITE
            ELSE ColorOf(b) = GREEN

\* C8 witness: a scan, after a tick has been propagated, with two bodies tied
\* at the minimum distance.
C8_Witness ==
    /\ ScanDone
    /\ propagated >= 0
    /\ Cardinality(Tied) >= 2

\* C9: after a scan whose intersection lies on the 100 x 100 ground plane,
\* exactly one body is white when planets >= 1 and none when planets = 0.
C9_OneWhiteOrNone ==
    (ScanDone
        /\ \A k \in {1, 3} :
              /\ 2 * intersections[1].position[k] <= PlaneSize * Unit
              /\ 2 * intersections[1].position[k] >= -(PlaneSize * Unit)) =>
        /\ settings[1].planets >= 1 =>
                Cardinality({b \in Bodies(world) : ColorOf(b) = WHITE}) = 1
        /\ settings[1].planets = 0 =>
                /\ Cardinality({b \in Bodies(world) : ColorOf(b) = WHITE}) = 0
                /\ last_scan = [done |-> TRUE, closest |-> 0]

\* C9 witness: a scan with the intersection in a corner of the ground plane.
C9_Witness ==
    /\ ScanDone
    /\ settings[1].planets >= 1
    /\ 2 * intersections[1].position[1] = PlaneSize * Unit
    /\ 2 * intersections[1].position[3] = -(PlaneSize * Unit)

\* C9 witness, no body: the scan completes and selects nothing.
C9_WitnessNoBody == ScanDone /\ settings[1].planets = 0

\* C10 (as stated; refuted): whenever Picker scans after a tick has run, the
\* world position it reads for each body is the one implied by the most recent
\* Orbit Updater tick.
C10_ScanReadsLatestTick ==
    [][ (PickStep /\ Scans /\ last_tick >= 0) =>
            \A b \in Bodies(world) :
                global_transform[b] = ImpliedWorld(b, last_tick) ]_vars

\* C10 (amended): whenever Picker scans, the world position it reads for each
\* body is the one implied by the most recent tick that had run when the
\* transforms were last propagated, at the end of the previous frame (the
\* origin when none had): a tick of the current frame is not reflected.
C10_ScanReadsPropagatedTick ==
    ScanDone =>
        \A b \in Bodies(world) : global_transform[b] = ImpliedWorld(b, propagated)

\* C10 witness: a scan in a frame whose tick moved a moon away from the world
\* position the scan read.
C10_Witness ==
    /\ ScanDone
    /\ propagated >= 0
    /\ last_tick > propagated
    /\ \E m \in Bodies(world) :
            IsMoon(world, m) /\ global_transform[m] # ImpliedWorld(m, last_tick)

====
